---- MODULE Spec2Model ----
(***************************************************************************)
(* Model of the Stof GitHub adapter (src/src/lib.rs).                      *)
(*                                                                         *)
(*  - GitHubLibrary::call  : the "GitHub" library, operation addFormat     *)
(*  - GitHubFormat         : new, url, get, format, file_import            *)
(*                                                                         *)
(* Strings are TLA+ strings (concatenated with \o).  An SVal is a record   *)
(* with one field naming its variant: [str |-> s], [num |-> n],            *)
(* [tup |-> <<...>>] or [arr |-> <<...>>].                                 *)
(***************************************************************************)
EXTENDS Integers, Sequences, FiniteSets

VARIABLES
    formats,    \* the document's format table: identifier -> index into arcs
    arcs,       \* every Arc<GitHubFormat> allocated so far, in allocation order
    ncalls,     \* number of library calls made on the document
    last,       \* the most recent library call: name, parameters, result, loads
    proc,       \* per process: the get / file_import call it is executing
    doc         \* the string imports the host document has accepted

vars == <<formats, arcs, ncalls, last, proc, doc>>

-----------------------------------------------------------------------------
(* Bounds of the model *)

\* Library calls made on one document.
MaxCalls == 2

\* Longest header list passed as a third or fourth argument.
MaxList == 2

-----------------------------------------------------------------------------
(* SVal values *)

SStr(s) == [str |-> s]
SNum(n) == [num |-> n]
STup(items) == [tup |-> items]
SArr(items) == [arr |-> items]

IsString(v) == DOMAIN v = {"str"}
IsNumber(v) == DOMAIN v = {"num"}
IsTuple(v) == DOMAIN v = {"tup"}
IsArray(v) == DOMAIN v = {"arr"}

Digits == <<"0", "1", "2", "3", "4", "5", "6", "7", "8", "9">>

\* SVal::to_string as used on owner, repo and header tuple members: a string
\* is copied, a number is printed in decimal.
ToString(v) == IF IsString(v) THEN v.str ELSE Digits[v.num + 1]

-----------------------------------------------------------------------------
(* GitHubFormat *)

\* HashMap::insert: insert or overwrite.
InsertKeep(h, k, v) ==
    [x \in DOMAIN h \cup {k} |-> IF x \in DOMAIN h THEN h[x] ELSE v]

Insert(h, k, v) ==
    [x \in DOMAIN h \cup {k} |-> IF x = k THEN v ELSE h[x]]

EmptyMap == [x \in {} |-> ""]

DefaultHeaders ==
    Insert(Insert(EmptyMap, "Accept", "application/vnd.github.raw+json"),
           "X-GitHub-Api-Version", "2022-11-28")

\* GitHubFormat::new(repo, owner)
NewSwapped(repo, owner) ==
    [repo_id |-> repo, owner |-> repo, repo |-> owner, headers |-> DefaultHeaders]

New(repo, owner) ==
    [repo_id |-> repo, owner |-> owner, repo |-> repo, headers |-> DefaultHeaders]

\* GitHubFormat::url
UrlById(fmt, path) ==
    "https://api.github.com/repos/" \o fmt.owner \o "/" \o fmt.repo_id
        \o "/contents/" \o path

Url(fmt, path) ==
    "https://api.github.com/repos/" \o fmt.owner \o "/" \o fmt.repo
        \o "/contents/" \o path

\* Format::format
FormatByOwner(fmt) == "github:" \o fmt.owner

Format(fmt) == "github:" \o fmt.repo_id

-----------------------------------------------------------------------------
(* GitHubLibrary::call, "addFormat" *)

HasRequiredStrict(parameters) == Len(parameters) > 2

HasRequired(parameters) == Len(parameters) >= 2

\* The loop over an array argument: every 2-element tuple is pushed onto
\* headers, in order; anything else is skipped.
RECURSIVE PushHeadersFront(_, _)
PushHeadersFront(vals, headers) ==
    IF vals = <<>> THEN headers
    ELSE LET val == Head(vals)
             next == IF IsTuple(val) /\ Len(val.tup) = 2
                     THEN <<<<ToString(val.tup[1]), ToString(val.tup[2])>>>> \o headers
                     ELSE headers
         IN PushHeadersFront(Tail(vals), next)

RECURSIVE PushHeaders(_, _)
PushHeaders(vals, headers) ==
    IF vals = <<>> THEN headers
    ELSE LET val == Head(vals)
             next == IF IsTuple(val) /\ Len(val.tup) = 2
                     THEN Append(headers, <<ToString(val.tup[1]), ToString(val.tup[2])>>)
                     ELSE headers
         IN PushHeaders(Tail(vals), next)

\* The match on one optional argument; st holds the locals repo_id, headers.
MatchExtraNoId(arg, st) ==
    IF IsArray(arg) THEN [st EXCEPT !.headers = PushHeaders(arg.arr, @)]
    ELSE st

MatchExtra(arg, st) ==
    IF IsArray(arg) THEN [st EXCEPT !.headers = PushHeaders(arg.arr, @)]
    ELSE IF IsString(arg) THEN [st EXCEPT !.repo_id = arg.str]
    ELSE st

\* for (key, value) in headers { format.headers.insert(key, value); }
RECURSIVE InsertAll(_, _)
InsertAll(h, pairs) ==
    IF pairs = <<>> THEN h
    ELSE InsertAll(Insert(h, Head(pairs)[1], Head(pairs)[2]), Tail(pairs))

\* The format addFormat builds from two or more parameters.
BuildFormat(parameters) ==
    LET owner == ToString(parameters[1])
        repo == ToString(parameters[2])
        st0 == [repo_id |-> repo, headers |-> <<>>]
        st1 == IF Len(parameters) > 2 THEN MatchExtra(parameters[3], st0) ELSE st0
        st2 == IF Len(parameters) > 3 THEN MatchExtra(parameters[4], st1) ELSE st1
        format == New(repo, owner)
    IN [format EXCEPT !.repo_id = st2.repo_id,
                      !.headers = InsertAll(@, st2.headers)]

\* SDoc::load_format(Arc::new(format)): insert or replace by identifier.
LoadFormat(format) ==
    /\ arcs' = Append(arcs, format)
    /\ formats' = Insert(formats, Format(format), Len(arcs) + 1)

MissingArguments == "GitHub.addFormat requires at least 2 parameters"
CouldNotExecute == "Could not execute in the GitHub library"
Void == "Void"

AddFormat(parameters) ==
    /\ ncalls < MaxCalls
    /\ ncalls' = ncalls + 1
    /\ IF HasRequired(parameters)
       THEN /\ LoadFormat(BuildFormat(parameters))
            /\ last' = [name |-> "addFormat", parameters |-> parameters,
                        result |-> Void, loads |-> 1]
       ELSE /\ UNCHANGED <<formats, arcs>>
            /\ last' = [name |-> "addFormat", parameters |-> parameters,
                        result |-> MissingArguments, loads |-> 0]
    /\ UNCHANGED <<proc, doc>>

\* Any other name falls through the match.
CallOther(name, parameters) ==
    /\ name # "addFormat"
    /\ ncalls < MaxCalls
    /\ ncalls' = ncalls + 1
    /\ last' = [name |-> name, parameters |-> parameters,
                result |-> CouldNotExecute, loads |-> 0]
    /\ UNCHANGED <<formats, arcs, proc, doc>>

-----------------------------------------------------------------------------
(* Inputs of the registrar *)

Owners == {SStr("o"), SNum(7)}
Repos == {SStr("r"), SStr("s")}

\* Entries of a header list: well-formed tuples (one on a default key, two on
\* the same key, one with a numeric value), a malformed 3-tuple and an entry
\* that is no tuple.
Items ==
    { STup(<<SStr("Accept"), SStr("x")>>),
      SStr("Accept"),
      STup(<<SStr("k"), SStr("x")>>),
      STup(<<SStr("k"), SNum(1)>>),
      STup(<<SStr("k"), SStr("x"), SStr("y")>>) }

RECURSIVE SeqsUpTo(_, _)
SeqsUpTo(S, n) ==
    IF n = 0 THEN {<<>>}
    ELSE LET shorter == SeqsUpTo(S, n - 1)
         IN shorter \cup {Append(s, x) : s \in shorter, x \in S}

Lists == {SArr(s) : s \in SeqsUpTo(Items, MaxList)}

\* A third or fourth argument: an identifier, a header list, or neither.
Extras == {SStr("a"), SStr("b"), SNum(1)} \cup Lists

Params ==
    {<<>>} \cup {<<o>> : o \in Owners}
    \cup {<<o, r>> : o \in Owners, r \in Repos}
    \cup {<<o, r, e>> : o \in Owners, r \in Repos, e \in Extras}
    \cup {<<o, r, e, f>> : o \in Owners, r \in Repos, e \in Extras, f \in Extras}

\* Parameter lists of the calls that follow the first one on a document: a
\* failing call, a plain registration, a registration under another owner
\* with a header override, an identifier override that collides with repo
\* "r", and headers together with an identifier.
ReParams ==
    { <<SStr("o")>>,
      <<SStr("o"), SStr("r")>>,
      <<SNum(7), SStr("r"), SArr(<<STup(<<SStr("Accept"), SStr("x")>>)>>)>>,
      <<SStr("o"), SStr("s"), SStr("r")>>,
      <<SStr("o"), SStr("r"), SArr(<<STup(<<SStr("k"), SStr("x")>>)>>), SStr("a")>> }

\* The parameter lists offered to the next library call.  The first call on
\* a document ranges over every argument shape, the later ones over ReParams.
Offered == IF ncalls = 0 THEN Params ELSE ReParams

\* The registrations made while imports are running: a failing call, a
\* registration, and one that replaces it under the same identifier.
DocParams ==
    { <<SStr("o")>>,
      <<SStr("o"), SStr("r")>>,
      <<SNum(7), SStr("r"), SArr(<<STup(<<SStr("Accept"), SStr("x")>>)>>)>> }

Paths == {"a/b.json", "web/deno.json", "a b?.stof"}

-----------------------------------------------------------------------------

(* GitHubFormat::get and Format::file_import, one call per process *)

Procs == {"main", "worker"}

Idle ==
    [pc |-> "idle", kind |-> "", arc |-> 0, path |-> "", ext |-> "",
     as_name |-> "", url |-> "", sent |-> EmptyMap, requests |-> 0,
     fetch |-> "", body |-> "", contents |-> "", si |-> <<>>, result |-> ""]

FetchError == "FetchError"
ImportDelegationError == "ImportDelegationError"
Ok == "Ok"

\* What the remote API may answer to request.call().
Outcomes == {"ok", "transport", "status"}
Bodies == {"{\"name\": \"@formata/stof\"}"}
FetchPaths == {"web/deno.json"}
Exts == {"json", "stof"}
Bindings == {"Import"}

\* get and file_import take &self: the shared format is only read.
ArcsAfterBorrowTaken(a, i) == [a EXCEPT ![i].headers = EmptyMap]

ArcsAfterBorrow(a, i) == a

\* Entry into get (kind "get") or file_import (kind "file_import") on the
\* format registered under key: the URL is built and every header is set on
\* the request.
Begin(p, kind, key, path, ext, as_name) ==
    /\ proc[p].pc = "idle"
    /\ key \in DOMAIN formats
    /\ LET i == formats[key]
       IN /\ proc' = [proc EXCEPT ![p] =
                        [Idle EXCEPT !.pc = "request", !.kind = kind, !.arc = i,
                                     !.path = path, !.ext = ext,
                                     !.as_name = as_name,
                                     !.url = Url(arcs[i], path),
                                     !.sent = arcs[i].headers]]
          /\ arcs' = ArcsAfterBorrow(arcs, i)
    /\ UNCHANGED <<formats, ncalls, last, doc>>

\* request.call()?: the call record after the transport answered.
AfterCallRetry(c, outcome, body) ==
    IF outcome = "ok"
    THEN [c EXCEPT !.requests = @ + 1, !.pc = "decode", !.body = body]
    ELSE IF c.requests = 0
    THEN [c EXCEPT !.requests = @ + 1]
    ELSE [c EXCEPT !.requests = @ + 1, !.pc = "done", !.fetch = outcome,
                   !.result = FetchError]

AfterCall(c, outcome, body) ==
    IF outcome = "ok"
    THEN [c EXCEPT !.requests = @ + 1, !.pc = "decode", !.body = body]
    ELSE [c EXCEPT !.requests = @ + 1, !.pc = "done", !.fetch = outcome,
                   !.result = FetchError]

RequestCall(p) ==
    /\ proc[p].pc = "request"
    /\ \E outcome \in Outcomes, body \in Bodies :
           proc' = [proc EXCEPT ![p] = AfterCall(@, outcome, body)]
    /\ UNCHANGED <<formats, arcs, ncalls, last, doc>>

\* Where a call goes once get has returned Ok(contents): get itself is
\* done, file_import goes on to string_import.
AfterGetAlwaysImport(c, decoded) ==
    IF c.kind = "file_import"
    THEN [c EXCEPT !.pc = "string_import", !.fetch = IF decoded THEN "ok" ELSE "decode",
                   !.contents = IF decoded THEN c.body ELSE ""]
    ELSE IF decoded
    THEN [c EXCEPT !.pc = "done", !.fetch = "ok", !.contents = c.body,
                   !.result = c.body]
    ELSE [c EXCEPT !.pc = "done", !.fetch = "decode", !.result = FetchError]

AfterGet(c, decoded) ==
    IF ~decoded
    THEN [c EXCEPT !.pc = "done", !.fetch = "decode", !.result = FetchError]
    ELSE IF c.kind = "file_import"
    THEN [c EXCEPT !.pc = "string_import", !.fetch = "ok", !.contents = c.body]
    ELSE [c EXCEPT !.pc = "done", !.fetch = "ok", !.contents = c.body,
                   !.result = c.body]

\* response.into_string()?
IntoString(p) ==
    /\ proc[p].pc = "decode"
    /\ \E decoded \in BOOLEAN :
           proc' = [proc EXCEPT ![p] = AfterGet(@, decoded)]
    /\ UNCHANGED <<formats, arcs, ncalls, last, doc>>

\* The arguments file_import hands to SDoc::string_import.
StringImportArgs(p, c) ==
    [pid |-> p, extension |-> c.ext, contents |-> c.contents, as_name |-> c.as_name]

\* doc.string_import(pid, extension, &contents, as_name): the host accepts
\* the text or rejects it; its result is file_import's result.
StringImport(p) ==
    /\ proc[p].pc = "string_import"
    /\ LET args == StringImportArgs(p, proc[p])
       IN \E accepted \in BOOLEAN :
            /\ doc' = IF accepted THEN doc \cup {args} ELSE doc
            /\ proc' = [proc EXCEPT ![p] =
                          [@ EXCEPT !.pc = "done", !.si = Append(@, args),
                                    !.result = IF accepted THEN Ok
                                               ELSE ImportDelegationError]]
    /\ UNCHANGED <<formats, arcs, ncalls, last>>

\* The call returns to the host.
Return(p) ==
    /\ proc[p].pc = "done"
    /\ proc' = [proc EXCEPT ![p] = Idle]
    /\ UNCHANGED <<formats, arcs, ncalls, last, doc>>

-----------------------------------------------------------------------------

NoCall == [name |-> "", parameters |-> <<>>, result |-> "", loads |-> 0]

Init ==
    /\ formats = [x \in {} |-> 0]
    /\ arcs = <<>>
    /\ ncalls = 0
    /\ last = NoCall
    /\ proc = [p \in Procs |-> Idle]
    /\ doc = {}

\* The registrar alone.
NextReg ==
    \/ \E parameters \in Offered : AddFormat(parameters)
    \/ \E parameters \in ReParams : CallOther("removeFormat", parameters)

SpecReg == Init /\ [][NextReg]_vars

\* The document with its processes: registrations interleaved with imports.
Next ==
    \/ \E parameters \in DocParams : AddFormat(parameters)
    \/ \E p \in Procs, key \in DOMAIN formats, path \in FetchPaths :
           Begin(p, "get", key, path, "", "")
    \/ \E p \in Procs, key \in DOMAIN formats, path \in FetchPaths,
          ext \in Exts, as_name \in Bindings :
           Begin(p, "file_import", key, path, ext, as_name)
    \/ \E p \in Procs : RequestCall(p)
    \/ \E p \in Procs : IntoString(p)
    \/ \E p \in Procs : StringImport(p)
    \/ \E p \in Procs : Return(p)

Spec == Init /\ [][Next]_vars

-----------------------------------------------------------------------------
(* What the claims are stated over *)

\* The text of an owner, repo, header key or header value argument.
Text(v) == ToString(v)

IsAdd == last.name = "addFormat"
Succeeded == IsAdd /\ last.result = Void

\* The format the last call handed to load_format, when it succeeded.
Loaded == arcs[Len(arcs)]

IsHeaderTuple(it) == IsTuple(it) /\ Len(it.tup) = 2

\* The header tuples of the i-th parameter, in the order written.
TuplesOf(parameters, i) ==
    IF Len(parameters) >= i /\ IsArray(parameters[i])
    THEN SelectSeq(parameters[i].arr, IsHeaderTuple)
    ELSE <<>>

\* All header tuples of a call: the third argument's, then the fourth's.
Supplied(parameters) == TuplesOf(parameters, 3) \o TuplesOf(parameters, 4)

KeysOf(tuples) == {Text(tuples[i].tup[1]) : i \in DOMAIN tuples}

\* The value of the last tuple of a non-empty list that has key k.
LastValue(tuples, k) ==
    LET at == {i \in DOMAIN tuples : Text(tuples[i].tup[1]) = k}
        hi == CHOOSE i \in at : \A j \in at : j <= i
    IN Text(tuples[hi].tup[2])

\* The allocations registered under an identifier, and the latest of them.
ArcsOf(id) == {i \in DOMAIN arcs : "github:" \o arcs[i].repo_id = id}
Latest(id) == CHOOSE i \in ArcsOf(id) : \A j \in ArcsOf(id) : j <= i

-----------------------------------------------------------------------------
(* C1 *)

StateC1 ==
    IsAdd =>
        IF Len(last.parameters) < 2
        THEN last.result = MissingArguments /\ last.loads = 0
        ELSE last.result = Void /\ last.loads = 1

StepC1 ==
    (ncalls' # ncalls /\ last'.name = "addFormat") =>
        IF Len(last'.parameters) < 2
        THEN formats' = formats /\ arcs' = arcs
        ELSE /\ Len(arcs') = Len(arcs) + 1
             /\ SubSeq(arcs', 1, Len(arcs)) = arcs
             /\ \E id \in DOMAIN formats' :
                    /\ formats'[id] = Len(arcs')
                    /\ DOMAIN formats' = DOMAIN formats \cup {id}
                    /\ \A other \in DOMAIN formats \ {id} :
                           formats'[other] = formats[other]

\* C1: addFormat with 0 or 1 arguments returns MissingArguments and leaves
\* the format registry as it was; with 2 or more arguments it returns void
\* and performs exactly one registry insert, whatever the third and fourth
\* arguments are.
TheoremC1 == []StateC1 /\ [][StepC1]_vars

\* A failing one-argument call made on a document whose registry already
\* holds a format from an earlier, successful call that added no header.
WitnessC1 ==
    /\ IsAdd /\ Len(last.parameters) = 1 /\ last.result = MissingArguments
    /\ Len(arcs) = 1 /\ DOMAIN formats # {}
    /\ arcs[1].headers = DefaultHeaders

-----------------------------------------------------------------------------
(* C2 *)

\* C2: after addFormat(owner, repo) with exactly two arguments the registry
\* has an entry under "github:" + repo whose Fetcher has that owner and repo
\* and answers to that identifier.
TheoremC2 ==
    (Succeeded /\ Len(last.parameters) = 2) =>
        LET owner == Text(last.parameters[1])
            repo == Text(last.parameters[2])
            id == "github:" \o repo
        IN /\ id \in DOMAIN formats
           /\ arcs[formats[id]].owner = owner
           /\ arcs[formats[id]].repo = repo
           /\ Format(arcs[formats[id]]) = id

WitnessC2 ==
    /\ Succeeded /\ last.parameters = <<SNum(7), SStr("s")>>
    /\ "github:s" \in DOMAIN formats
    /\ arcs[formats["github:s"]].owner = "7"

-----------------------------------------------------------------------------
(* C3 *)

\* C3 as written: whenever the third argument is a string s, whatever the
\* fourth argument, the registered identifier is "github:" + s.
OriginalC3 ==
    (Succeeded /\ Len(last.parameters) >= 3 /\ IsString(last.parameters[3])) =>
        /\ Format(Loaded) = "github:" \o last.parameters[3].str
        /\ formats["github:" \o last.parameters[3].str] = Len(arcs)

\* C3, amended: when the third argument is a string s and the fourth is
\* absent or not a string, the registered identifier is "github:" + s; when
\* the fourth argument is a string t, it is "github:" + t.
TheoremC3 ==
    (Succeeded /\ Len(last.parameters) >= 3 /\ IsString(last.parameters[3])) =>
        LET s == IF Len(last.parameters) >= 4 /\ IsString(last.parameters[4])
                 THEN last.parameters[4].str
                 ELSE last.parameters[3].str
        IN /\ Format(Loaded) = "github:" \o s
           /\ "github:" \o s \in DOMAIN formats
           /\ formats["github:" \o s] = Len(arcs)

WitnessC3 ==
    /\ Succeeded /\ Len(last.parameters) = 4
    /\ last.parameters[2] = SStr("r")
    /\ last.parameters[3] = SStr("a")
    /\ IsArray(last.parameters[4]) /\ Len(last.parameters[4].arr) = 2
    /\ "github:a" \in DOMAIN formats /\ "github:r" \notin DOMAIN formats

-----------------------------------------------------------------------------
(* C4 *)

\* C4 as written: every supplied header tuple (k, v) is in the Fetcher's
\* header map as k -> v.
OriginalC4 ==
    Succeeded =>
        \A i \in DOMAIN Supplied(last.parameters) :
            LET t == Supplied(last.parameters)[i]
            IN /\ Text(t.tup[1]) \in DOMAIN Loaded.headers
               /\ Loaded.headers[Text(t.tup[1])] = Text(t.tup[2])

\* C4, amended: every supplied header tuple (k, v) has its key in the
\* Fetcher's header map, mapped to v unless a tuple applied later (later in
\* the same list, or in the fourth argument's list) has the same key; a
\* default key that is supplied holds a supplied value, not the default.
TheoremC4 ==
    Succeeded =>
        LET sup == Supplied(last.parameters)
        IN \A i \in DOMAIN sup :
            LET k == Text(sup[i].tup[1])
                v == Text(sup[i].tup[2])
            IN /\ k \in DOMAIN Loaded.headers
               /\ (\A j \in DOMAIN sup : j > i => Text(sup[j].tup[1]) # k)
                      => Loaded.headers[k] = v
               /\ k \in DOMAIN DefaultHeaders
                      => \E j \in DOMAIN sup :
                             /\ Text(sup[j].tup[1]) = k
                             /\ Loaded.headers[k] = Text(sup[j].tup[2])

WitnessC4 ==
    /\ Succeeded /\ Len(last.parameters) = 4
    /\ Len(TuplesOf(last.parameters, 3)) = 2
    /\ Len(TuplesOf(last.parameters, 4)) = 1
    /\ Loaded.headers["Accept"] = "x"
    /\ "k" \in DOMAIN Loaded.headers /\ Loaded.headers["k"] = "1"

-----------------------------------------------------------------------------
(* C7 *)

\* C7: buildUrl(path) is "https://api.github.com/repos/" + owner + "/" +
\* repo + "/contents/" + path, with owner and repo the first and second
\* addFormat arguments and path copied as it is; an identifier override
\* does not change it.
TheoremC7 ==
    Succeeded =>
        \A path \in Paths :
            Url(Loaded, path) =
                "https://api.github.com/repos/" \o Text(last.parameters[1])
                    \o "/" \o Text(last.parameters[2]) \o "/contents/" \o path

WitnessC7 ==
    /\ Succeeded /\ last.parameters = <<SNum(7), SStr("r"), SStr("a")>>
    /\ Format(Loaded) = "github:a"
    /\ Url(Loaded, "a b?.stof") = "https://api.github.com/repos/7/r/contents/a b?.stof"

-----------------------------------------------------------------------------
(* C8 *)

\* C8: a header key supplied more than once in one call holds the value
\* applied last: the last tuple of the fourth argument's list that has the
\* key, or, when the fourth argument has none, the last one of the third's.
TheoremC8 ==
    Succeeded =>
        LET third == TuplesOf(last.parameters, 3)
            fourth == TuplesOf(last.parameters, 4)
        IN /\ \A k \in KeysOf(fourth) :
                  Loaded.headers[k] = LastValue(fourth, k)
           /\ \A k \in KeysOf(third) \ KeysOf(fourth) :
                  Loaded.headers[k] = LastValue(third, k)

\* The same key twice in the third list with different values, and again in
\* the fourth list.
WitnessC8 ==
    /\ Succeeded /\ Len(last.parameters) = 4
    /\ last.parameters[3] =
           SArr(<<STup(<<SStr("k"), SNum(1)>>), STup(<<SStr("k"), SStr("x")>>)>>)
    /\ last.parameters[4] =
           SArr(<<STup(<<SStr("k"), SStr("x")>>), STup(<<SStr("k"), SNum(1)>>)>>)
    /\ Loaded.headers["k"] = "1"

-----------------------------------------------------------------------------
(* C5 *)

StateC5 ==
    /\ \A i \in DOMAIN arcs : "github:" \o arcs[i].repo_id \in DOMAIN formats
    /\ \A id \in DOMAIN formats : ArcsOf(id) # {} /\ formats[id] = Latest(id)

\* A call that starts runs on the latest registration of its identifier.
StepC5 ==
    \A p \in Procs :
        (proc[p].pc = "idle" /\ proc'[p].pc = "request") =>
            LET i == proc'[p].arc
                id == "github:" \o arcs[i].repo_id
            IN /\ i = Latest(id)
               /\ proc'[p].sent = arcs[i].headers
               /\ proc'[p].url =
                      "https://api.github.com/repos/" \o arcs[i].owner \o "/"
                          \o arcs[i].repo \o "/contents/" \o proc'[p].path

\* C5: the registry holds, for every identifier ever registered, exactly the
\* Fetcher built by the most recent addFormat that produced the identifier,
\* and an import started afterwards uses that Fetcher's owner, repo and
\* headers, never those of a replaced one.
TheoremC5 == []StateC5 /\ [][StepC5]_vars

\* "github:r" registered twice, and an import running with the headers of
\* the second registration.
WitnessC5 ==
    /\ Len(arcs) = 2 /\ ArcsOf("github:r") = {1, 2}
    /\ arcs[1].owner = "o" /\ arcs[2].owner = "7"
    /\ \E p \in Procs :
           /\ proc[p].pc = "request" /\ proc[p].kind = "file_import"
           /\ proc[p].arc = 2 /\ proc[p].sent["Accept"] = "x"
           /\ proc[p].url = "https://api.github.com/repos/7/r/contents/web/deno.json"

-----------------------------------------------------------------------------
(* C6 *)

StateC6 ==
    \A p \in Procs :
        LET c == proc[p]
        IN /\ c.kind = "get" => c.si = <<>>
           /\ (c.kind = "file_import" /\ c.pc = "done") =>
                  IF c.fetch = "ok"
                  THEN /\ c.si = << [pid |-> p, extension |-> c.ext,
                                     contents |-> c.body, as_name |-> c.as_name] >>
                       /\ c.result \in {Ok, ImportDelegationError}
                       /\ c.result = Ok => c.si[1] \in doc
                  ELSE c.si = <<>> /\ c.result = FetchError
           /\ (c.kind = "file_import" /\ c.pc # "done") => c.si = <<>>

\* Only a string import changes the document, and a call whose fetch failed
\* ends without changing it.
StepC6 ==
    /\ doc' # doc =>
           \E p \in Procs :
               /\ proc[p].pc = "string_import" /\ proc'[p].pc = "done"
               /\ proc'[p].fetch = "ok" /\ proc'[p].result = Ok
               /\ doc' = doc \cup {proc'[p].si[1]}
    /\ \A p \in Procs :
           (proc[p].pc # "done" /\ proc'[p].pc = "done" /\ proc'[p].result # Ok)
               => doc' = doc

\* C6: importFile invokes the host's string import exactly when the fetch
\* succeeded, once, with the caller's process id, extension, the fetched
\* text and the binding name, and returns that call's result; when the fetch
\* failed it returns the fetch error and the document stays as it was.
TheoremC6 == []StateC6 /\ [][StepC6]_vars

\* One import went through and is in the document, another failed to fetch.
WitnessC6 ==
    /\ proc["main"].kind = "file_import" /\ proc["main"].pc = "done"
    /\ proc["main"].fetch = "ok" /\ proc["main"].result = Ok
    /\ proc["main"].ext = "stof" /\ Len(proc["main"].si) = 1
    /\ proc["worker"].kind = "file_import" /\ proc["worker"].pc = "done"
    /\ proc["worker"].fetch = "status" /\ proc["worker"].result = FetchError
    /\ Cardinality(doc) = 1

-----------------------------------------------------------------------------
(* C9 *)

StateC9 ==
    \A p \in Procs :
        proc[p].pc # "idle" =>
            /\ proc[p].arc \in DOMAIN arcs
            /\ proc[p].sent = arcs[proc[p].arc].headers
            /\ proc[p].url = Url(arcs[proc[p].arc], proc[p].path)

StepC9 ==
    /\ \A i \in DOMAIN arcs : i \in DOMAIN arcs' /\ arcs'[i] = arcs[i]
    /\ proc' # proc => formats' = formats /\ arcs' = arcs

-----------------------------------------------------------------------------
(* C10 *)

\* C10: a fetchRaw call issues exactly one GET: a transport failure, a
\* non-success status or a body that cannot be decoded ends the call with an
\* error and no second request, and a successful response is returned as the
\* body text.
TheoremC10 ==
    \A p \in Procs :
        LET c == proc[p]
        IN /\ c.requests = (IF c.pc \in {"idle", "request"} THEN 0 ELSE 1)
           /\ c.pc = "done" =>
                  /\ c.fetch \in {"ok", "transport", "status", "decode"}
                  /\ c.fetch # "ok" => c.result = FetchError
                  /\ (c.fetch = "ok" /\ c.kind = "get") =>
                         c.result = c.body /\ c.body \in Bodies

\* One fetch failed in transport, the other returned the body.
WitnessC10 ==
    /\ proc["main"].kind = "get" /\ proc["main"].pc = "done"
    /\ proc["main"].fetch = "transport" /\ proc["main"].requests = 1
    /\ proc["worker"].kind = "get" /\ proc["worker"].pc = "done"
    /\ proc["worker"].fetch = "ok" /\ proc["worker"].result \in Bodies

====
